---- MODULE Spec2Model ----
(***************************************************************************)
(* A model of package kdtree (kdtree.go): a k-d tree with bulk             *)
(* construction, insertion without rebalancing, bounding volumes, nearest  *)
(* neighbour searches and ordered traversals.                              *)
(*                                                                         *)
(* A pointer is a sequence of length 0 (nil) or 1 (the value pointed to);  *)
(* a *Bounding is <<>> (nil) or the pair <<low, high>>.  A point is a      *)
(* tuple of integer coordinates.                                           *)
(***************************************************************************)
EXTENDS Integers, Sequences, FiniteSets, TLC

\* Largest coordinate of a point and largest number of stored points.
MaxCoord == 1
MaxCount == 3

Coords == 0..MaxCoord
Points == Coords \X Coords
Nil == <<>>

Min(a, b) == IF a <= b THEN a ELSE b
Max(a, b) == IF a >= b THEN a ELSE b

(***************************************************************************)
(* The Comparable contract.                                                *)
(***************************************************************************)
Dims(c) == Len(c)

Clone(c) == c

\* c = a_d - b_d
Compare(a, b, d) == a[d + 1] - b[d + 1]

RECURSIVE SumSq(_, _, _)
SumSq(a, b, k) ==
    IF k = 0 THEN 0
    ELSE (a[k] - b[k]) * (a[k] - b[k]) + SumSq(a, b, k - 1)

\* the squared Euclidian distance
Distance(a, b) == SumSq(a, b, Len(a))

\* math.Inf(1): larger than every distance and every squared offset.
inf == Distance(<<0, 0>>, <<MaxCoord, MaxCoord>>) + 1

(***************************************************************************)
(* Bounding volumes.                                                       *)
(***************************************************************************)
Contains(b, c) ==
    IF b = Nil THEN TRUE
    ELSE \A d \in 0..(Dims(c) - 1) :
            ~(Compare(c, b[1], d) < 0 \/ Compare(c, b[2], d) > 0)

\* Extender.Extend: the smallest box containing the old bound and the point.
Extend(c, b) ==
    IF b = Nil THEN <<Clone(c), Clone(c)>>
    ELSE << [k \in 1..Len(c) |-> Min(b[1][k], c[k])],
            [k \in 1..Len(c) |-> Max(b[2][k], c[k])] >>

RECURSIVE BoundsOf(_)
\* Bounder.Bounds: the smallest box containing the points of the list.
BoundsOf(p) ==
    IF Len(p) = 0 THEN Nil
    ELSE Extend(Head(p), BoundsOf(Tail(p)))

(***************************************************************************)
(* Nodes and construction.                                                 *)
(***************************************************************************)
Node(pt, plane, l, r, b) ==
    [Point |-> pt, Plane |-> plane, Left |-> l, Right |-> r, Bounding |-> b]

\* Interface.Pivot(plane) with p[i] as the pivot: the elements not above the
\* pivot on the plane precede it, the larger ones follow it.
PivotLeft(p, i, plane) ==
    LET idx == SelectSeq([k \in 1..Len(p) |-> k],
                         LAMBDA k : k # i /\ Compare(p[k], p[i], plane) <= 0)
    IN  [k \in 1..Len(idx) |-> p[idx[k]]]

PivotRight(p, i, plane) ==
    SelectSeq(p, LAMBDA e : Compare(e, p[i], plane) > 0)

RECURSIVE build(_, _)
\* The set of trees build can return, one for each choice of pivots.
build(p, plane) ==
    IF Len(p) = 0 THEN {Nil}
    ELSE UNION { LET d  == p[piv]
                     np == (plane + 1) % Dims(d)
                 IN  { <<Node(d, plane, l, r, Nil)>> :
                         l \in build(PivotLeft(p, piv, plane), np),
                         r \in build(PivotRight(p, piv, plane), np) }
               : piv \in 1..Len(p) }

RECURSIVE buildBounded(_, _, _)
buildBounded(p, plane, bounding) ==
    IF Len(p) = 0 THEN {Nil}
    ELSE UNION { LET d  == p[piv]
                     np == (plane + 1) % Dims(d)
                     b  == IF bounding THEN BoundsOf(p) ELSE Nil
                 IN  { <<Node(d, plane, l, r, b)>> :
                         l \in buildBounded(PivotLeft(p, piv, plane), np, bounding),
                         r \in buildBounded(PivotRight(p, piv, plane), np, bounding) }
               : piv \in 1..Len(p) }

\* New(p, bounding); isBounder tells whether p implements Bounder.
New(p, isBounder, bounding) ==
    IF isBounder /\ bounding
    THEN { [Root |-> r, Count |-> Len(p)] : r \in buildBounded(p, 0, bounding) }
    ELSE { [Root |-> r, Count |-> Len(p)] : r \in build(p, 0) }

(***************************************************************************)
(* Insertion.                                                              *)
(***************************************************************************)
RECURSIVE insert(_, _, _)
\* insert sending a point level with the node to the right.
insertTiesRight(n, c, d) ==
    IF n = Nil THEN <<Node(c, d, Nil, Nil, Nil)>>
    ELSE LET nd == n[1]
             d2 == (nd.Plane + 1) % Dims(c)
         IN  IF Compare(c, nd.Point, nd.Plane) < 0
             THEN <<[nd EXCEPT !.Left = insert(nd.Left, c, d2)]>>
             ELSE <<[nd EXCEPT !.Right = insert(nd.Right, c, d2)]>>

insert(n, c, d) ==
    IF n = Nil THEN <<Node(c, d, Nil, Nil, Nil)>>
    ELSE LET nd == n[1]
             d2 == (nd.Plane + 1) % Dims(c)
         IN  IF Compare(c, nd.Point, nd.Plane) <= 0
             THEN <<[nd EXCEPT !.Left = insert(nd.Left, c, d2)]>>
             ELSE <<[nd EXCEPT !.Right = insert(nd.Right, c, d2)]>>

RECURSIVE insertBounded(_, _, _, _)
insertBounded(n, c, d, bounding) ==
    IF n = Nil
    THEN <<Node(c, d, Nil, Nil,
                IF bounding THEN <<Clone(c), Clone(c)>> ELSE Nil)>>
    ELSE LET nd == n[1]
             b  == IF bounding THEN Extend(c, nd.Bounding) ELSE nd.Bounding
             d2 == (nd.Plane + 1) % Dims(c)
         IN  IF Compare(c, nd.Point, nd.Plane) <= 0
             THEN <<[nd EXCEPT !.Bounding = b,
                               !.Left = insertBounded(nd.Left, c, d2, bounding)]>>
             ELSE <<[nd EXCEPT !.Bounding = b,
                               !.Right = insertBounded(nd.Right, c, d2, bounding)]>>

\* InsertBounding without the look at the root.
InsertBoundingArg(root, bounding) == bounding

\* The value of bounding that Tree.Insert uses after looking at the root.
InsertBounding(root, bounding) ==
    IF root # Nil THEN root[1].Bounding # Nil ELSE bounding

\* Tree.Insert(c, bounding) on the root; isExtender tells whether c
\* implements Extender.  Returns the new root.
TreeInsert(root, c, isExtender, bounding) ==
    LET b == InsertBounding(root, bounding)
    IN  IF isExtender /\ b
        THEN insertBounded(root, c, 0, b)
        ELSE LET r == IF ~isExtender /\ root # Nil
                      THEN <<[root[1] EXCEPT !.Bounding = Nil]>>
                      ELSE root
             IN  insert(r, c, 0)

(***************************************************************************)
(* Tree.Contains.  A nil root makes t.Root.Bounding a nil dereference.     *)
(***************************************************************************)
TreeContains(root, c) ==
    IF root = Nil THEN [panic |-> TRUE, ok |-> FALSE]
    ELSE IF root[1].Bounding = Nil THEN [panic |-> FALSE, ok |-> TRUE]
    ELSE [panic |-> FALSE, ok |-> Contains(root[1].Bounding, c)]

(***************************************************************************)
(* Nearest neighbour search.                                               *)
(***************************************************************************)
\* WithinPlane with the comparison turned round.
WithinPlaneInverted(c, dist) == dist <= c * c

\* The test that lets a search enter the far side of a node's plane.
WithinPlane(c, dist) == c * c <= dist

RECURSIVE search(_, _, _)
\* Node.search: [n |-> best node pointer, d |-> distance].
search(n, q, dist0) ==
    IF n = Nil THEN [n |-> Nil, d |-> inf]
    ELSE LET nd   == n[1]
             c    == Compare(q, nd.Point, nd.Plane)
             dist == Min(dist0, Distance(q, nd.Point))
         IN  IF c <= 0
             THEN LET l  == search(nd.Left, q, dist)
                      d1 == IF l.d < dist THEN l.d ELSE dist
                      b1 == IF l.d < dist THEN l.n ELSE n
                  IN  IF WithinPlane(c, d1)
                      THEN LET r == search(nd.Right, q, d1)
                           IN  IF r.d < d1 THEN [n |-> r.n, d |-> r.d]
                               ELSE [n |-> b1, d |-> d1]
                      ELSE [n |-> b1, d |-> d1]
             ELSE LET r  == search(nd.Right, q, dist)
                      d1 == IF r.d < dist THEN r.d ELSE dist
                      b1 == IF r.d < dist THEN r.n ELSE n
                  IN  IF WithinPlane(c, d1)
                      THEN LET l == search(nd.Left, q, d1)
                           IN  IF l.d < d1 THEN [n |-> l.n, d |-> l.d]
                               ELSE [n |-> b1, d |-> d1]
                      ELSE [n |-> b1, d |-> d1]

\* Tree.Nearest: [pt |-> pointer to the point (Nil for none), d |-> distance].
Nearest(root, q) ==
    IF root = Nil THEN [pt |-> Nil, d |-> inf]
    ELSE LET r == search(root, q, inf)
         IN  IF r.n = Nil THEN [pt |-> Nil, d |-> inf]
             ELSE [pt |-> <<r.n[1].Point>>, d |-> r.d]

(***************************************************************************)
(* nDists: a max-heap of NodeDist kept in a slice; a is the slice's        *)
(* elements and cap its capacity.  Index i of the slice is a[i + 1].       *)
(***************************************************************************)
NodeDist(n, d) == [Node |-> n, Dist |-> d]

newNDists(n) == [a |-> <<NodeDist(Nil, inf)>>, cap |-> n]

\* Less ordering the heap by increasing Dist.
LessMin(a, i, j) == a[i + 1].Dist < a[j + 1].Dist

Less(a, i, j) == a[i + 1].Dist > a[j + 1].Dist

Swap(a, i, j) == [a EXCEPT ![i + 1] = a[j + 1], ![j + 1] = a[i + 1]]

RECURSIVE up(_, _)
\* container/heap up, with the parent (j-1)/2 truncated toward zero.
up(a, j) ==
    LET i == IF j = 0 THEN 0 ELSE (j - 1) \div 2
    IN  IF i = j \/ ~Less(a, j, i) THEN a
        ELSE up(Swap(a, i, j), i)

RECURSIVE down(_, _, _)
\* container/heap down over the first n elements.
down(a, i, n) ==
    LET j1 == 2 * i + 1
    IN  IF j1 >= n THEN a
        ELSE LET j2 == j1 + 1
                 j  == IF j2 < n /\ Less(a, j2, j1) THEN j2 ELSE j1
             IN  IF ~Less(a, j, i) THEN a
                 ELSE down(Swap(a, i, j), j, n)

\* heap.Push(nd, x): append, then up.
HeapPush(a, x) == up(Append(a, x), Len(a))

\* heap.Pop(nd): swap the head to the end, down, drop the last element.
HeapPop(a) ==
    LET n == Len(a) - 1
    IN  SubSeq(down(Swap(a, 0, n), 0, n), 1, n)

Keep(nd, x) ==
    IF x.Dist < nd.a[1].Dist
    THEN IF Len(nd.a) = nd.cap
         THEN [nd EXCEPT !.a = HeapPush(HeapPop(nd.a), x)]
         ELSE [nd EXCEPT !.a = HeapPush(nd.a, x)]
    ELSE nd

RECURSIVE searchN(_, _, _)
searchN(n, q, dists0) ==
    IF n = Nil THEN dists0
    ELSE LET nd    == n[1]
             c     == Compare(q, nd.Point, nd.Plane)
             dists == Keep(dists0, NodeDist(n, Distance(q, nd.Point)))
         IN  IF c <= 0
             THEN LET l == searchN(nd.Left, q, dists)
                  IN  IF WithinPlane(c, l.a[1].Dist)
                      THEN searchN(nd.Right, q, l)
                      ELSE l
             ELSE LET r == searchN(nd.Right, q, dists)
                  IN  IF WithinPlane(c, r.a[1].Dist)
                      THEN searchN(nd.Left, q, r)
                      ELSE r

RECURSIVE Sorted(_)
\* sort.Sort(nd) orders by Less, that is by decreasing Dist; the order of
\* equal elements is not fixed, so every such arrangement is an outcome:
\* any element that none is Less than may come first.
Sorted(a) ==
    IF Len(a) = 0 THEN {<<>>}
    ELSE UNION { { <<a[i]>> \o t :
                     t \in Sorted([k \in 1..(Len(a) - 1) |->
                                     IF k < i THEN a[k] ELSE a[k + 1]]) }
               : i \in { h \in 1..Len(a) :
                           \A k \in 1..Len(a) : ~Less(a, k - 1, h - 1) } }

Reverse(a) == [k \in 1..Len(a) |-> a[Len(a) + 1 - k]]

\* Tree.NearestN: the set of results [pts, dists, panic] it can return.
\* Reading n.Point of a NodeDist whose Node is nil is a nil dereference.
NearestN(root, n, q) ==
    IF root = Nil
    THEN {[pts |-> <<>>, dists |-> <<inf>>, panic |-> FALSE]}
    ELSE LET nd == searchN(root, q, newNDists(n)).a
         IN  IF Len(nd) = 1
             THEN IF nd[1].Node = Nil
                  THEN {[pts |-> <<>>, dists |-> <<inf>>, panic |-> FALSE]}
                  ELSE {[pts |-> <<nd[1].Node[1].Point>>,
                         dists |-> <<nd[1].Dist>>, panic |-> FALSE]}
             ELSE { LET r == Reverse(s)
                    IN  IF \E k \in 1..Len(r) : r[k].Node = Nil
                        THEN [pts |-> <<>>, dists |-> <<>>, panic |-> TRUE]
                        ELSE [pts   |-> [k \in 1..Len(r) |-> r[k].Node[1].Point],
                              dists |-> [k \in 1..Len(r) |-> r[k].Dist],
                              panic |-> FALSE]
                  : s \in Sorted(nd) }

(***************************************************************************)
(* Traversal.  The Operation returns true on its stopAt-th call (never if  *)
(* stopAt is 0); calls is the sequence of <<point, depth>> it was given.   *)
(***************************************************************************)
Operation(stopAt, calls) == Len(calls) = stopAt

RECURSIVE do(_, _, _, _)
\* do going on after the left subtree reported done.
doNoStop(n, stopAt, depth, calls) ==
    LET l == IF n.Left # Nil
             THEN do(n.Left[1], stopAt, depth + 1, calls)
             ELSE [done |-> FALSE, calls |-> calls]
        c2 == Append(l.calls, <<n.Point, depth>>)
    IN  IF Operation(stopAt, c2) THEN [done |-> TRUE, calls |-> c2]
        ELSE IF n.Right # Nil
        THEN do(n.Right[1], stopAt, depth + 1, c2)
        ELSE [done |-> FALSE, calls |-> c2]

\* Node.do on a non-nil node n (a record).
do(n, stopAt, depth, calls) ==
    LET l == IF n.Left # Nil
             THEN do(n.Left[1], stopAt, depth + 1, calls)
             ELSE [done |-> FALSE, calls |-> calls]
    IN  IF l.done THEN l
        ELSE LET c2 == Append(l.calls, <<n.Point, depth>>)
             IN  IF Operation(stopAt, c2) THEN [done |-> TRUE, calls |-> c2]
                 ELSE IF n.Right # Nil
                 THEN do(n.Right[1], stopAt, depth + 1, c2)
                 ELSE [done |-> FALSE, calls |-> c2]

Do(root, stopAt) ==
    IF root = Nil THEN [done |-> FALSE, calls |-> <<>>]
    ELSE do(root[1], stopAt, 0, <<>>)

RECURSIVE doBounded(_, _, _, _, _)
doBounded(n, stopAt, b, depth, calls) ==
    LET lc == Compare(b[1], n.Point, n.Plane)
        hc == Compare(b[2], n.Point, n.Plane)
        l  == IF lc < 0 /\ n.Left # Nil
              THEN doBounded(n.Left[1], stopAt, b, depth + 1, calls)
              ELSE [done |-> FALSE, calls |-> calls]
    IN  IF l.done THEN l
        ELSE LET in == Contains(b, n.Point)
                 c2 == IF in THEN Append(l.calls, <<n.Point, depth>>) ELSE l.calls
             IN  IF in /\ Operation(stopAt, c2) THEN [done |-> TRUE, calls |-> c2]
                 ELSE IF hc > 0 /\ n.Right # Nil
                 THEN doBounded(n.Right[1], stopAt, b, depth + 1, c2)
                 ELSE [done |-> FALSE, calls |-> c2]

DoBounded(root, stopAt, b) ==
    IF root = Nil THEN [done |-> FALSE, calls |-> <<>>]
    ELSE IF b = Nil THEN do(root[1], stopAt, 0, <<>>)
    ELSE doBounded(root[1], stopAt, b, 0, <<>>)

(***************************************************************************)
(* The state: a Tree (Root, Count) and res, the result handed back by the  *)
(* call that ran last and not yet consumed by the caller.                  *)
(***************************************************************************)
VARIABLES Root, Count, res

vars == <<Root, Count, res>>

\* Bounds given to DoBounded: nil, or a box whose low corner is not above
\* its high corner on any axis.
Boxes ==
    { b \in Points \X Points : \A k \in 1..Len(b[1]) : b[1][k] <= b[2][k] }

NoRes ==
    [op |-> "none", q |-> Nil, n |-> 0, b |-> Nil, stopAt |-> 0,
     pts |-> <<>>, dists |-> <<>>, calls |-> <<>>, ok |-> FALSE,
     panic |-> FALSE, ext |-> FALSE, preRoot |-> Nil, alt |-> Nil]

Sources == UNION { [1..k -> Points] : k \in 0..MaxCount }

Init ==
    /\ \E p \in Sources, isBounder \in BOOLEAN, bounding \in BOOLEAN :
         \E t \in New(p, isBounder, bounding) :
            /\ Root = t.Root
            /\ Count = t.Count
    /\ res = NoRes

\* t.Insert(c, bounding).  alt is the root the call would have left had it
\* been given the other value of bounding.
Insert ==
    /\ res.op = "none"
    /\ Count < MaxCount
    /\ \E c \in Points, isExtender \in BOOLEAN, bounding \in BOOLEAN :
         /\ Count' = Count + 1
         /\ Root' = TreeInsert(Root, c, isExtender, bounding)
         /\ res' = [NoRes EXCEPT !.op = "Insert", !.ext = isExtender,
                                 !.preRoot = IF Root = Nil THEN Nil
                                             ELSE <<Root[1].Bounding # Nil>>,
                                 !.q = c,
                                 !.alt = TreeInsert(Root, c, isExtender, ~bounding)]

CallContains ==
    /\ res.op = "none"
    /\ \E c \in Points :
         LET r == TreeContains(Root, c)
         IN  res' = [NoRes EXCEPT !.op = "Contains", !.q = c,
                                  !.ok = r.ok, !.panic = r.panic]
    /\ UNCHANGED <<Root, Count>>

CallNearest ==
    /\ res.op = "none"
    /\ \E q \in Points :
         LET r == Nearest(Root, q)
         IN  res' = [NoRes EXCEPT !.op = "Nearest", !.q = q,
                                  !.pts = r.pt, !.dists = <<r.d>>]
    /\ UNCHANGED <<Root, Count>>

CallNearestN ==
    /\ res.op = "none"
    /\ \E q \in Points, n \in 1..(MaxCount + 1) :
         \E r \in NearestN(Root, n, q) :
            res' = [NoRes EXCEPT !.op = "NearestN", !.q = q, !.n = n,
                                 !.pts = r.pts, !.dists = r.dists,
                                 !.panic = r.panic]
    /\ UNCHANGED <<Root, Count>>

CallDo ==
    /\ res.op = "none"
    /\ \E stopAt \in 0..MaxCount :
         LET r == Do(Root, stopAt)
         IN  res' = [NoRes EXCEPT !.op = "Do", !.stopAt = stopAt,
                                  !.calls = r.calls, !.ok = r.done]
    /\ UNCHANGED <<Root, Count>>

CallDoBounded ==
    /\ res.op = "none"
    /\ \E stopAt \in 0..MaxCount, b \in Boxes \cup {Nil} :
         LET r == DoBounded(Root, stopAt, b)
         IN  res' = [NoRes EXCEPT !.op = "DoBounded", !.stopAt = stopAt,
                                  !.b = b, !.calls = r.calls, !.ok = r.done]
    /\ UNCHANGED <<Root, Count>>

\* The caller takes the result; the next call can start.
Return ==
    /\ res.op # "none"
    /\ res' = NoRes
    /\ UNCHANGED <<Root, Count>>

Next ==
    \/ Insert
    \/ CallContains
    \/ CallNearest
    \/ CallNearestN
    \/ CallDo
    \/ CallDoBounded
    \/ Return

Spec == Init /\ [][Next]_vars

\* The calls leave the tree alone, so the trees reached are the same under
\* each of the specifications below; each keeps the calls of one kind.
NextTree == Insert \/ Return

SpecTree == Init /\ [][NextTree]_vars

NextNearest == Insert \/ CallNearest \/ Return

SpecNearest == Init /\ [][NextNearest]_vars

NextNearestN == Insert \/ CallNearestN \/ Return

SpecNearestN == Init /\ [][NextNearestN]_vars

NextDo == Insert \/ CallDo \/ CallDoBounded \/ Return

SpecDo == Init /\ [][NextDo]_vars

NextContains == Insert \/ CallContains \/ Return

SpecContains == Init /\ [][NextContains]_vars

(***************************************************************************)
(* Definitions the properties are stated with.  They read the tree         *)
(* directly and use none of the operations above.                          *)
(***************************************************************************)
RECURSIVE InOrder(_, _)
\* The <<point, depth>> pairs of a subtree: left subtree, node, right subtree.
InOrder(n, depth) ==
    IF n = Nil THEN <<>>
    ELSE InOrder(n[1].Left, depth + 1) \o <<<<n[1].Point, depth>>>>
            \o InOrder(n[1].Right, depth + 1)

Stored == InOrder(Root, 0)

PointSet(n) == { InOrder(n, 0)[i][1] : i \in 1..Len(InOrder(n, 0)) }

RECURSIVE NodesOf(_)
\* The node records of a subtree.
NodesOf(n) ==
    IF n = Nil THEN {}
    ELSE {n[1]} \cup NodesOf(n[1].Left) \cup NodesOf(n[1].Right)

Occurrences(s, e) == Cardinality({ i \in 1..Len(s) : s[i] = e })

RECURSIVE InsertSorted(_, _)
InsertSorted(s, x) ==
    IF s = <<>> THEN <<x>>
    ELSE IF x <= Head(s) THEN <<x>> \o s
    ELSE <<Head(s)>> \o InsertSorted(Tail(s), x)

RECURSIVE SortAsc(_)
SortAsc(s) == IF s = <<>> THEN <<>> ELSE InsertSorted(SortAsc(Tail(s)), Head(s))

RECURSIVE IsSubseq(_, _)
\* s can be had from t by deleting elements.
IsSubseq(s, t) ==
    IF s = <<>> THEN TRUE
    ELSE IF t = <<>> THEN FALSE
    ELSE IF Head(s) = Head(t) THEN IsSubseq(Tail(s), Tail(t))
    ELSE IsSubseq(s, Tail(t))

DistsTo(q) == [i \in 1..Len(Stored) |-> Distance(q, Stored[i][1])]

NoBounds(n) == \A x \in NodesOf(n) : x.Bounding = Nil
AllBounded(n) == \A x \in NodesOf(n) : x.Bounding # Nil

(***************************************************************************)
(* C1: on a non-empty tree Nearest(q) returns a stored point p and a       *)
(* distance d with d = q.Distance(p), and d is the least distance from q   *)
(* to a stored point.                                                      *)
(***************************************************************************)
NearestIsMinimum ==
    (res.op = "Nearest" /\ Root # Nil) =>
        /\ Len(res.pts) = 1
        /\ res.pts[1] \in PointSet(Root)
        /\ res.dists[1] = Distance(res.q, res.pts[1])
        /\ \A i \in 1..Len(Stored) : res.dists[1] <= Distance(res.q, Stored[i][1])

\* The nearest point lies below the root on the side of the root's plane
\* away from the query, strictly nearer than the root.
NearestFarSideWitness ==
    /\ res.op = "Nearest"
    /\ Root # Nil
    /\ res.dists[1] > 0
    /\ res.dists[1] < Distance(res.q, Root[1].Point)
    /\ IF Compare(res.q, Root[1].Point, Root[1].Plane) <= 0
       THEN /\ res.pts[1] \in PointSet(Root[1].Right)
            /\ res.pts[1] \notin PointSet(Root[1].Left)
       ELSE /\ res.pts[1] \in PointSet(Root[1].Left)
            /\ res.pts[1] \notin PointSet(Root[1].Right)

(***************************************************************************)
(* C2: on a non-empty tree NearestN(n, q) with n >= 1 completes and        *)
(* returns exactly min(n, Count) points and min(n, Count) distances, the   *)
(* distances in non-decreasing order.                                      *)
(***************************************************************************)
NearestNSize ==
    (res.op = "NearestN" /\ Root # Nil) =>
        /\ ~res.panic
        /\ Len(res.pts) = Min(res.n, Count)
        /\ Len(res.dists) = Min(res.n, Count)
        /\ \A k \in 1..(Len(res.dists) - 1) : res.dists[k] <= res.dists[k + 1]

(***************************************************************************)
(* C3: when Count >= n >= 1 the distances NearestN(n, q) returns are, as   *)
(* a multiset, the n smallest distances from q to the stored points.       *)
(***************************************************************************)
NearestNSmallest ==
    (res.op = "NearestN" /\ Count >= res.n) =>
        /\ ~res.panic
        /\ SortAsc(res.dists) = SubSeq(SortAsc(DistsTo(res.q)), 1, res.n)

\* More points stored than asked for, and the root, kept first, is not
\* among the points returned: it was evicted for a nearer one.
NearestNEvictedWitness ==
    /\ res.op = "NearestN"
    /\ Count > res.n
    /\ ~res.panic
    /\ Len(res.pts) = res.n
    /\ \A k \in 1..Len(res.pts) : res.pts[k] # Root[1].Point

(***************************************************************************)
(* C4: DoBounded with a non-nil bound b and a visitor that never returns   *)
(* true calls the visitor exactly once for each stored point inside b and  *)
(* for no other point.                                                     *)
(***************************************************************************)
DoBoundedVisitsContained ==
    (res.op = "DoBounded" /\ res.b # Nil /\ res.stopAt = 0) =>
        \A p \in Points :
            Occurrences([i \in 1..Len(res.calls) |-> res.calls[i][1]], p)
              = IF Contains(res.b, p)
                THEN Occurrences([i \in 1..Len(Stored) |-> Stored[i][1]], p)
                ELSE 0

(***************************************************************************)
(* C5: for every node n with plane d, every point p of n's left subtree    *)
(* has p.Compare(n.Point, d) <= 0 and every point of its right subtree     *)
(* has p.Compare(n.Point, d) > 0.                                          *)
(***************************************************************************)
PlaneConsistent ==
    \A x \in NodesOf(Root) :
        /\ \A p \in PointSet(x.Left) : Compare(p, x.Point, x.Plane) <= 0
        /\ \A p \in PointSet(x.Right) : Compare(p, x.Point, x.Plane) > 0

\* An insertion has put a point level with the root on the root's plane,
\* and different from the root's point, into the root's left subtree.
PlaneTieWitness ==
    /\ res.op = "Insert"
    /\ Count = MaxCount
    /\ Root[1].Left # Nil
    /\ Compare(Root[1].Left[1].Point, Root[1].Point, Root[1].Plane) = 0
    /\ Root[1].Left[1].Point = res.q
    /\ res.q # Root[1].Point

(***************************************************************************)
(* C6: every node that has a bounding volume has one that contains every   *)
(* point stored in the node's own subtree.                                 *)
(***************************************************************************)
BoundsContainSubtree ==
    \A x \in NodesOf(Root) :
        x.Bounding # Nil =>
            \A p \in PointSet(<<x>>) : Contains(x.Bounding, p)

(***************************************************************************)
(* C7: after Insert of a point without Extend into a tree whose root had   *)
(* a bounding volume no node has a bounding volume; and in every state     *)
(* either every node has a bounding volume or none has.                    *)
(***************************************************************************)
BoundsAllOrNone ==
    /\ (res.op = "Insert" /\ ~res.ext /\ res.preRoot = <<TRUE>>) => NoBounds(Root)
    /\ AllBounded(Root) \/ NoBounds(Root)

(***************************************************************************)
(* C8: Do and DoBounded call the visitor in left subtree, node, right      *)
(* subtree order; once a call returns true there is no further call and    *)
(* the traversal returns true; if no call returns true it returns false.   *)
(***************************************************************************)
TraversalOrderAndStop ==
    /\ (res.op = "Do" \/ (res.op = "DoBounded" /\ res.b = Nil)) =>
          LET len == IF res.stopAt \in 1..Len(Stored) THEN res.stopAt
                     ELSE Len(Stored)
          IN  /\ res.calls = SubSeq(Stored, 1, len)
              /\ res.ok = (res.stopAt \in 1..Len(Stored))
    /\ (res.op = "DoBounded" /\ res.b # Nil) =>
          /\ IsSubseq(res.calls, Stored)
          /\ res.stopAt >= 1 => Len(res.calls) <= res.stopAt
          /\ res.ok = (res.stopAt >= 1 /\ Len(res.calls) = res.stopAt)

\* A visitor that returns true on its first call was called once, with a
\* point below the root, and the traversal reported the interruption.
StopOnFirstWitness ==
    /\ res.op = "Do"
    /\ res.stopAt = 1
    /\ Count = MaxCount
    /\ res.ok
    /\ Len(res.calls) = 1
    /\ res.calls[1][2] > 0

(***************************************************************************)
(* C9: Tree.Contains(c) returns true whenever the tree has no bounding     *)
(* volume, the empty tree included; otherwise it returns the root          *)
(* bounding volume's Contains(c).                                          *)
(***************************************************************************)
ContainsTotal ==
    res.op = "Contains" =>
        /\ ~res.panic
        /\ res.ok = IF Root = Nil THEN TRUE
                    ELSE IF Root[1].Bounding = Nil THEN TRUE
                    ELSE \A k \in 1..Len(res.q) :
                            /\ Root[1].Bounding[1][k] <= res.q[k]
                            /\ res.q[k] <= Root[1].Bounding[2][k]

====
